---- MODULE Spec2Model ----
(***************************************************************************)
(* Face-embedding gallery: enrollment (src/enroll_faces.py), the matcher   *)
(* FaceRecognizer.find_match and the streaming recognition loop            *)
(* FaceRecognizer.run_webcam_recognition (src/recognize_webcam.py).        *)
(*                                                                         *)
(* Numbers.  Embeddings are integer vectors whose Euclidean norm is a      *)
(* multiple of 5, so that every cosine is a multiple of 1/25 and the       *)
(* cosine distance 1 - u.v/sqrt(u.u * v.v) is computed exactly in units of *)
(* 1/Scale.  Distances, similarities and thresholds are all carried in     *)
(* these units (0.4 is 10, 1.0 is 25, 2.0 is 50).                          *)
(***************************************************************************)
EXTENDS Integers, Sequences, FiniteSets, TLC

VARIABLES
    blob,            \* the persisted store file EMBEDDINGS_FILE
    \* ---- matcher harness (find_match as a pure function)
    probe,           \* the probe embedding handed to find_match
    match_result,    \* what find_match returned (Pending before the call)
    \* ---- FaceRecognizer / run_webcam_recognition
    pc,              \* position of the recognition program
    embeddings_db,   \* self.embeddings_db, an insertion-ordered mapping
    threshold,       \* self.threshold
    cap,             \* the capture resource: "none", "held", "released"
    releases,        \* number of cap.release() calls made so far
    frame_count,     \* frame_count of the loop
    last_detection,  \* last_detection of the loop
    samples,         \* history: one entry per extractor invocation
    rendered,        \* history: the overlay reaching the drawing code, per frame
    \* ---- extract_embeddings (enrollment)
    e_pc,            \* position of the enrollment program
    dir,             \* PHOTOS_DIR: Missing or the listing os.listdir returns
    image_files,     \* image_files
    idx,             \* number of images of image_files processed so far
    enroll_db,       \* embeddings_db of extract_embeddings
    outcomes,        \* history: "ok" / "fail" per processed image
    prior            \* history: the persisted file when the run started

vars == <<blob, probe, match_result, pc, embeddings_db, threshold, cap, releases,
          frame_count, last_detection, samples, rendered,
          e_pc, dir, image_files, idx, enroll_db, outcomes, prior>>

matchVars  == <<probe, match_result>>
streamVars == <<pc, cap, releases, frame_count, last_detection, samples, rendered>>
enrollVars == <<e_pc, dir, image_files, idx, enroll_db, outcomes, prior>>

----------------------------------------------------------------------------
(* Bounds of the model *)

MaxFrames == 25      \* frames the camera delivers before cap.read() fails
MaxStore  == 2       \* records of a store drawn for find_match
MaxFiles  == 3       \* entries of the photo directory

----------------------------------------------------------------------------
(* Values *)

Scale == 5 * 5       \* distance 1.0 in model units

THRESHOLD == (4 * Scale) \div 10             \* 0.4

process_every_n_frames == 10

MODEL_NAME == "Facenet512"

COLOR_RECOGNIZED == "green"
COLOR_UNKNOWN    == "red"

PersonIds == {"a", "b", "c"}

\* embeddings of the enrolled model (dimension 2 here)
Embeddings == {<<5, 0>>, <<4, 3>>, <<3, 4>>, <<0, 5>>, <<-5, 0>>, <<8, 6>>}

\* an embedding of another dimensionality (produced by another model)
OtherDim == <<5, 0, 0>>

Thresholds == {0, 5, THRESHOLD, Scale + 1}

None == [kind |-> "none"]

\* the file does not exist / holds a pickled mapping / was opened 'wb' and not
\* (completely) written
NoFile      == [kind |-> "nofile"]
Truncated   == [kind |-> "truncated"]
Stored(db)  == [kind |-> "store", db |-> db]

Photo(stem, suffix) == [stem |-> stem, suffix |-> suffix]

\* one item of the mapping: key person_id, value {"embedding", "photo_path", "model"}
Rec(person_id, embedding, photo_path) ==
    [person_id |-> person_id, embedding |-> embedding,
     photo_path |-> photo_path, model |-> MODEL_NAME]

Keys(db) == {db[i].person_id : i \in 1..Len(db)}

----------------------------------------------------------------------------
(* scipy.spatial.distance.cosine *)

RECURSIVE DotFrom(_, _, _)
DotFrom(u, v, i) ==
    IF i > Len(u) THEN 0 ELSE u[i] * v[i] + DotFrom(u, v, i + 1)

Dot(u, v) == DotFrom(u, v, 1)

ISqrt(n) == CHOOSE r \in 0..n : r * r = n

\* 1 - u.v / sqrt(u.u * v.v), in units of 1/Scale; defined for equal lengths
Cosine(u, v) == Scale - (Dot(u, v) * Scale) \div ISqrt(Dot(u, u) * Dot(v, v))

\* numpy raises ValueError when the two vectors differ in length
ShapeError(u, v) == Len(u) # Len(v)

----------------------------------------------------------------------------
(* FaceRecognizer.find_match *)

\* mutant of BestInit: best_distance = 0 instead of float('inf')
BestInitZero == [raised |-> FALSE, inf |-> FALSE, best_match |-> "", best_distance |-> 0]

\* best_match = None, best_distance = float('inf')
BestInit == [raised |-> FALSE, inf |-> TRUE, best_match |-> "", best_distance |-> 0]

\* mutant of Closer: <= instead of < (a later record at the same distance wins)
CloserOrEqual(distance, best) == best.inf \/ distance <= best.best_distance

\* mutant of Closer: the comparison reversed (the scan keeps the farthest record)
CloserReversed(distance, best) == best.inf \/ distance > best.best_distance

\* distance < best_distance
Closer(distance, best) == best.inf \/ distance < best.best_distance

\* mutant of BelowThreshold: <= instead of <
BelowThresholdInclusive(best, thr) == ~best.inf /\ best.best_distance <= thr

\* mutant of BelowThreshold: the threshold test reversed
BelowThresholdReversed(best, thr) == ~best.inf /\ best.best_distance > thr

\* best_distance < self.threshold
BelowThreshold(best, thr) == ~best.inf /\ best.best_distance < thr

\* mutant of Similarity: the distance returned unconverted
SimilarityIsDistance(best_distance) == best_distance

\* similarity = 1 - best_distance
Similarity(best_distance) == Scale - best_distance

\* the for loop over self.embeddings_db.items(), from item i on
RECURSIVE Scan(_, _, _, _)
Scan(embedding, db, i, best) ==
    IF i > Len(db) THEN best
    ELSE IF ShapeError(embedding, db[i].embedding)
         THEN [best EXCEPT !.raised = TRUE]
         ELSE LET distance == Cosine(embedding, db[i].embedding) IN
              IF Closer(distance, best)
              THEN Scan(embedding, db, i + 1,
                        [best EXCEPT !.inf = FALSE, !.best_distance = distance,
                                     !.best_match = db[i].person_id])
              ELSE Scan(embedding, db, i + 1, best)

Raised  == [kind |-> "raise", person_id |-> "", similarity |-> 0]
NoMatch == [kind |-> "nomatch", person_id |-> "", similarity |-> 0]   \* (None, None)
Match(person_id, similarity) ==
    [kind |-> "match", person_id |-> person_id, similarity |-> similarity]

FindMatch(embedding, db, thr) ==
    LET best == Scan(embedding, db, 1, BestInit) IN
    IF best.raised THEN Raised
    ELSE IF BelowThreshold(best, thr)
         THEN Match(best.best_match, Similarity(best.best_distance))
         ELSE NoMatch

----------------------------------------------------------------------------
(* find_match as a pure function: inputs drawn in Init, one call *)

Pending == [kind |-> "pending", person_id |-> "", similarity |-> 0]

Recs == {Rec(p, e, Photo(p, ".jpg")) : p \in PersonIds, e \in Embeddings}

\* insertion-ordered mappings: sequences of items with pairwise distinct keys
Stores ==
    UNION {{s \in [1..n -> Recs] :
               \A i, j \in 1..n : i # j => s[i].person_id # s[j].person_id}
           : n \in 0..MaxStore}

StreamIdle ==
    /\ pc = "idle" /\ cap = "none" /\ releases = 0 /\ frame_count = 0
    /\ last_detection = None /\ samples = <<>> /\ rendered = <<>>

EnrollIdle ==
    /\ e_pc = "idle" /\ dir = [kind |-> "missing"] /\ image_files = <<>>
    /\ idx = 0 /\ enroll_db = <<>> /\ outcomes = <<>> /\ prior = NoFile

InitMatch ==
    /\ probe \in Embeddings \cup {OtherDim}
    /\ embeddings_db \in Stores
    /\ threshold \in Thresholds
    /\ match_result = Pending
    /\ blob = Stored(embeddings_db)
    /\ StreamIdle
    /\ EnrollIdle

CallFindMatch ==
    /\ match_result = Pending
    /\ match_result' = FindMatch(probe, embeddings_db, threshold)
    /\ UNCHANGED <<blob, probe, embeddings_db, threshold, streamVars, enrollVars>>

NextMatch == CallFindMatch

SpecMatch == InitMatch /\ [][NextMatch]_vars

----------------------------------------------------------------------------
(* FaceRecognizer.__init__ / load_embeddings / run_webcam_recognition *)

\* the first detection DeepFace.represent can return on a frame
StreamProbes == {<<5, 0>>, <<-5, 0>>, OtherDim}
Areas == {[x |-> 10, y |-> 40, w |-> 30, h |-> 30], [x |-> 50, y |-> 60, w |-> 20, h |-> 20]}

\* the persisted file a recognition run can find
StreamBlobs ==
    { NoFile, Truncated, Stored(<<>>),
      Stored(<<Rec("a", <<4, 3>>, Photo("a", ".jpg")),
               Rec("b", <<0, 5>>, Photo("b", ".png"))>>) }

\* f"{person_id} ({similarity*100:.1f}%)": the identifier and the percentage
RecognizedLabel(person_id, similarity) == <<person_id, (similarity * 100) \div Scale>>
UnknownLabel == <<"DESCONOCIDO">>

Detection(facial_area, label, color) ==
    [kind |-> "detection", facial_area |-> facial_area, label |-> label, color |-> color]

\* mutant of OverlayFor: the answer of find_match is not tested
OverlayForAlwaysRecognized(m, facial_area) ==
    Detection(facial_area, RecognizedLabel(m.person_id, m.similarity), COLOR_RECOGNIZED)

\* lines 183-205: find_match, then the overlay built from its answer
OverlayFor(m, facial_area) ==
    IF m.person_id # ""                      \* if person_id:
    THEN Detection(facial_area, RecognizedLabel(m.person_id, m.similarity),
                   COLOR_RECOGNIZED)
    ELSE Detection(facial_area, UnknownLabel, COLOR_UNKNOWN)

Sample(outcome, m, overlay) ==
    [frame |-> frame_count, outcome |-> outcome, match |-> m, overlay |-> overlay]

InitStream ==
    /\ blob \in StreamBlobs
    /\ threshold = THRESHOLD
    /\ embeddings_db = <<>>
    /\ pc = "init"
    /\ cap = "none" /\ releases = 0 /\ frame_count = 0
    /\ last_detection = None /\ samples = <<>> /\ rendered = <<>>
    /\ probe = <<5, 0>> /\ match_result = Pending
    /\ EnrollIdle

\* mutant of LoadMissing: the message is printed but the run goes on
LoadMissingContinues ==
    /\ pc = "init" /\ blob = NoFile
    /\ pc' = "open_cap"
    /\ UNCHANGED <<blob, embeddings_db, threshold, cap, releases, frame_count,
                   last_detection, samples, rendered, matchVars, enrollVars>>

\* load_embeddings: the file does not exist -> message, exit(1)
LoadMissing ==
    /\ pc = "init" /\ blob = NoFile
    /\ pc' = "exit1"
    /\ UNCHANGED <<blob, embeddings_db, threshold, cap, releases, frame_count,
                   last_detection, samples, rendered, matchVars, enrollVars>>

\* load_embeddings: pickle.load of a complete file
LoadOk ==
    /\ pc = "init" /\ blob.kind = "store"
    /\ embeddings_db' = blob.db
    /\ pc' = "open_cap"
    /\ UNCHANGED <<blob, threshold, cap, releases, frame_count,
                   last_detection, samples, rendered, matchVars, enrollVars>>

\* load_embeddings: pickle.load raises on a file that is not a complete pickle
LoadCorrupt ==
    /\ pc = "init" /\ blob = Truncated
    /\ pc' = "load_error"
    /\ UNCHANGED <<blob, embeddings_db, threshold, cap, releases, frame_count,
                   last_detection, samples, rendered, matchVars, enrollVars>>

\* cap = cv2.VideoCapture(camera_source); cap.isOpened()
OpenCapture ==
    /\ pc = "open_cap"
    /\ cap' = "held"
    /\ pc' = "awaiting"
    /\ UNCHANGED <<blob, embeddings_db, threshold, releases, frame_count,
                   last_detection, samples, rendered, matchVars, enrollVars>>

\* not cap.isOpened(): message, return
OpenFail ==
    /\ pc = "open_cap"
    /\ pc' = "not_opened"
    /\ UNCHANGED <<blob, embeddings_db, threshold, cap, releases, frame_count,
                   last_detection, samples, rendered, matchVars, enrollVars>>

\* ret, frame = cap.read() with ret true; frame_count += 1
ReadFrame ==
    /\ pc = "awaiting"
    /\ frame_count < MaxFrames
    /\ frame_count' = frame_count + 1
    /\ pc' = "frame_ready"
    /\ UNCHANGED <<blob, embeddings_db, threshold, cap, releases,
                   last_detection, samples, rendered, matchVars, enrollVars>>

\* ret false: message, break
ReadFail ==
    /\ pc = "awaiting"
    /\ pc' = "cleanup"
    /\ UNCHANGED <<blob, embeddings_db, threshold, cap, releases, frame_count,
                   last_detection, samples, rendered, matchVars, enrollVars>>

\* mutant of IsSampled: the first frame of each interval instead of the last
IsSampledFirst(k) == k % process_every_n_frames = 1

\* if frame_count % process_every_n_frames == 0
IsSampled(k) == k % process_every_n_frames = 0

\* mutant of SampleCheck: a frame that is not sampled drops the overlay
SampleCheckClears ==
    /\ pc = "frame_ready"
    /\ pc' = IF IsSampled(frame_count) THEN "extracting" ELSE "rendering"
    /\ last_detection' = IF IsSampled(frame_count) THEN last_detection ELSE None
    /\ UNCHANGED <<blob, embeddings_db, threshold, cap, releases, frame_count,
                   samples, rendered, matchVars, enrollVars>>

SampleCheck ==
    /\ pc = "frame_ready"
    /\ pc' = IF IsSampled(frame_count) THEN "extracting" ELSE "rendering"
    /\ UNCHANGED <<blob, embeddings_db, threshold, cap, releases, frame_count,
                   last_detection, samples, rendered, matchVars, enrollVars>>

\* mutant of ExtractRaise: the handler keeps the previous overlay
ExtractRaiseKeeps ==
    /\ pc = "extracting"
    /\ samples' = Append(samples, Sample("raise", NoMatch, None))
    /\ pc' = "rendering"
    /\ UNCHANGED <<blob, embeddings_db, threshold, cap, releases, frame_count,
                   last_detection, rendered, matchVars, enrollVars>>

\* DeepFace.represent raises: except Exception -> last_detection = None
ExtractRaise ==
    /\ pc = "extracting"
    /\ last_detection' = None
    /\ samples' = Append(samples, Sample("raise", NoMatch, None))
    /\ pc' = "rendering"
    /\ UNCHANGED <<blob, embeddings_db, threshold, cap, releases, frame_count,
                   rendered, matchVars, enrollVars>>

\* DeepFace.represent returns an empty result: last_detection = None
ExtractEmpty ==
    /\ pc = "extracting"
    /\ last_detection' = None
    /\ samples' = Append(samples, Sample("empty", NoMatch, None))
    /\ pc' = "rendering"
    /\ UNCHANGED <<blob, embeddings_db, threshold, cap, releases, frame_count,
                   rendered, matchVars, enrollVars>>

\* mutant of ExtractFace: an unknown face is added to the store
ExtractFaceLearns ==
    /\ pc = "extracting"
    /\ \E embedding \in StreamProbes, facial_area \in Areas :
          LET m == FindMatch(embedding, embeddings_db, threshold)
              overlay == IF m.kind = "raise" THEN None ELSE OverlayFor(m, facial_area)
          IN /\ last_detection' = overlay
             /\ samples' = Append(samples, Sample("face", m, overlay))
             /\ embeddings_db' =
                   IF m.kind = "nomatch"
                   THEN Append(embeddings_db, Rec("new", embedding, Photo("new", ".jpg")))
                   ELSE embeddings_db
    /\ pc' = "rendering"
    /\ UNCHANGED <<blob, threshold, cap, releases, frame_count,
                   rendered, matchVars, enrollVars>>

\* mutant of ExtractFace: find_match is called outside the try block
ExtractFaceMatcherUncaught ==
    /\ pc = "extracting"
    /\ \E embedding \in StreamProbes, facial_area \in Areas :
          LET m == FindMatch(embedding, embeddings_db, threshold)
              overlay == IF m.kind = "raise" THEN last_detection
                         ELSE OverlayFor(m, facial_area)
          IN /\ last_detection' = overlay
             /\ samples' = Append(samples, Sample("face", m, overlay))
             /\ pc' = IF m.kind = "raise" THEN "crashed" ELSE "rendering"
    /\ UNCHANGED <<blob, embeddings_db, threshold, cap, releases, frame_count,
                   rendered, matchVars, enrollVars>>

\* DeepFace.represent returns at least one face: find_match on the first one;
\* an exception of find_match reaches the same except clause
ExtractFace ==
    /\ pc = "extracting"
    /\ \E embedding \in StreamProbes, facial_area \in Areas :
          LET m == FindMatch(embedding, embeddings_db, threshold)
              overlay == IF m.kind = "raise" THEN None ELSE OverlayFor(m, facial_area)
          IN /\ last_detection' = overlay
             /\ samples' = Append(samples, Sample("face", m, overlay))
    /\ pc' = "rendering"
    /\ UNCHANGED <<blob, embeddings_db, threshold, cap, releases, frame_count,
                   rendered, matchVars, enrollVars>>

\* lines 214-256: draw last_detection if set, the status line, cv2.imshow
Render ==
    /\ pc = "rendering"
    /\ rendered' = Append(rendered, last_detection)
    /\ pc' = "waitkey"
    /\ UNCHANGED <<blob, embeddings_db, threshold, cap, releases, frame_count,
                   last_detection, samples, matchVars, enrollVars>>

\* a cv2 drawing or display call raises (cv2.error): no handler encloses
\* lines 214-260, the exception leaves run_webcam_recognition
RenderRaise ==
    /\ pc = "rendering"
    /\ pc' = "crashed"
    /\ UNCHANGED <<blob, embeddings_db, threshold, cap, releases, frame_count,
                   last_detection, samples, rendered, matchVars, enrollVars>>

\* mutant of WaitKeyQuit: the key is also polled before the frame is processed
WaitKeyQuitAnywhere ==
    /\ pc \in {"waitkey", "frame_ready", "extracting"}
    /\ pc' = "cleanup"
    /\ UNCHANGED <<blob, embeddings_db, threshold, cap, releases, frame_count,
                   last_detection, samples, rendered, matchVars, enrollVars>>

\* cv2.waitKey(1) & 0xFF == ord('q'): break
WaitKeyQuit ==
    /\ pc = "waitkey"
    /\ pc' = "cleanup"
    /\ UNCHANGED <<blob, embeddings_db, threshold, cap, releases, frame_count,
                   last_detection, samples, rendered, matchVars, enrollVars>>

\* any other key or none: next iteration
WaitKeyContinue ==
    /\ pc = "waitkey"
    /\ pc' = "awaiting"
    /\ UNCHANGED <<blob, embeddings_db, threshold, cap, releases, frame_count,
                   last_detection, samples, rendered, matchVars, enrollVars>>

\* cap.release(); cv2.destroyAllWindows()
Release ==
    /\ pc = "cleanup"
    /\ cap' = "released"
    /\ releases' = releases + 1
    /\ pc' = "stopped"
    /\ UNCHANGED <<blob, embeddings_db, threshold, frame_count,
                   last_detection, samples, rendered, matchVars, enrollVars>>

Next ==
    \/ LoadMissing \/ LoadOk \/ LoadCorrupt
    \/ OpenCapture \/ OpenFail
    \/ ReadFrame \/ ReadFail
    \/ SampleCheck
    \/ ExtractRaise \/ ExtractEmpty \/ ExtractFace
    \/ Render \/ RenderRaise
    \/ WaitKeyQuit \/ WaitKeyContinue
    \/ Release

Spec == InitStream /\ [][Next]_vars

----------------------------------------------------------------------------
(* extract_embeddings (src/enroll_faces.py) *)

image_extensions == {".jpg", ".jpeg", ".png", ".bmp"}

\* str.lower on the suffixes that occur
Lower(suffix) ==
    CASE suffix = ".PNG" -> ".png"
      [] suffix = ".JPG" -> ".jpg"
      [] OTHER -> suffix

\* the entries a photo directory can hold
DirFiles ==
    { Photo("a", ".jpg"), Photo("b", ".png"), Photo("c", ".jpg"),
      Photo("a", ".PNG"), Photo("notes", ".txt") }

\* os.listdir: the entries, each once, in an arbitrary order
Listings ==
    UNION {{s \in [1..n -> DirFiles] : \A i, j \in 1..n : i # j => s[i] # s[j]}
           : n \in 0..MaxFiles}

\* the embedding DeepFace.represent returns for the first face of a photo
EnrollEmbeddings == {<<5, 0>>, <<4, 3>>}

\* the persisted file an enrollment run can find
EnrollBlobs == {NoFile, Stored(<<Rec("z", <<0, 5>>, Photo("z", ".jpg"))>>)}

\* Path(file).suffix.lower() in image_extensions
IsImage(file) == Lower(file.suffix) \in image_extensions

\* mutant of Upsert: setdefault, the first record of a key is kept
UpsertKeepsFirst(db, rec) ==
    IF rec.person_id \in Keys(db) THEN db ELSE Append(db, rec)

\* embeddings_db[person_id] = {...}: a present key keeps its place, a new one
\* goes last
Upsert(db, rec) ==
    IF rec.person_id \in Keys(db)
    THEN [i \in 1..Len(db) |-> IF db[i].person_id = rec.person_id THEN rec ELSE db[i]]
    ELSE Append(db, rec)

InitEnroll ==
    /\ blob \in EnrollBlobs
    /\ prior = blob
    /\ dir \in {[kind |-> "missing"]} \cup {[kind |-> "listing", files |-> l] : l \in Listings}
    /\ e_pc = "start"
    /\ image_files = <<>> /\ idx = 0 /\ enroll_db = <<>> /\ outcomes = <<>>
    /\ embeddings_db = <<>> /\ threshold = THRESHOLD
    /\ probe = <<5, 0>> /\ match_result = Pending
    /\ StreamIdle

\* lines 28-30: PHOTOS_DIR does not exist -> message, return
DirMissing ==
    /\ e_pc = "start" /\ dir.kind = "missing"
    /\ e_pc' = "returned"
    /\ UNCHANGED <<blob, dir, image_files, idx, enroll_db, outcomes, prior,
                   embeddings_db, threshold, matchVars, streamVars>>

\* lines 33-49: collect the image files; none -> message, return
Discover ==
    /\ e_pc = "start" /\ dir.kind = "listing"
    /\ image_files' = SelectSeq(dir.files, IsImage)
    /\ enroll_db' = <<>>
    /\ e_pc' = IF image_files' = <<>> THEN "returned" ELSE "loop"
    /\ UNCHANGED <<blob, dir, idx, outcomes, prior,
                   embeddings_db, threshold, matchVars, streamVars>>

\* lines 53-78: DeepFace.represent succeeds on the next image
ProcessOk ==
    /\ e_pc = "loop" /\ idx < Len(image_files)
    /\ \E embedding \in EnrollEmbeddings :
          LET img_path == image_files[idx + 1] IN
          enroll_db' = Upsert(enroll_db, Rec(img_path.stem, embedding, img_path))
    /\ idx' = idx + 1
    /\ outcomes' = Append(outcomes, "ok")
    /\ UNCHANGED <<blob, e_pc, dir, image_files, prior,
                   embeddings_db, threshold, matchVars, streamVars>>

\* mutant of ProcessFail: a failing image ends the batch
ProcessFailBreaks ==
    /\ e_pc = "loop" /\ idx < Len(image_files)
    /\ idx' = Len(image_files)
    /\ outcomes' = Append(outcomes, "fail")
    /\ UNCHANGED <<blob, e_pc, dir, image_files, enroll_db, prior,
                   embeddings_db, threshold, matchVars, streamVars>>

\* lines 80-82: any exception on the next image: message, continue
ProcessFail ==
    /\ e_pc = "loop" /\ idx < Len(image_files)
    /\ idx' = idx + 1
    /\ outcomes' = Append(outcomes, "fail")
    /\ UNCHANGED <<blob, e_pc, dir, image_files, enroll_db, prior,
                   embeddings_db, threshold, matchVars, streamVars>>

\* mutant of LoopEnd: the file is written whatever the mapping holds
LoopEndAlwaysWrites ==
    /\ e_pc = "loop" /\ idx = Len(image_files)
    /\ e_pc' = "open"
    /\ UNCHANGED <<blob, dir, image_files, idx, enroll_db, outcomes, prior,
                   embeddings_db, threshold, matchVars, streamVars>>

\* line 85: if embeddings_db: ... else: message
LoopEnd ==
    /\ e_pc = "loop" /\ idx = Len(image_files)
    /\ e_pc' = IF enroll_db # <<>> THEN "open" ELSE "returned"
    /\ UNCHANGED <<blob, dir, image_files, idx, enroll_db, outcomes, prior,
                   embeddings_db, threshold, matchVars, streamVars>>

\* lines 86-88: os.makedirs; open(EMBEDDINGS_FILE, 'wb') creates or truncates
OpenWrite ==
    /\ e_pc = "open"
    /\ blob' = Truncated
    /\ e_pc' = "dump"
    /\ UNCHANGED <<dir, image_files, idx, enroll_db, outcomes, prior,
                   embeddings_db, threshold, matchVars, streamVars>>

\* line 89: pickle.dump(embeddings_db, f) and the close of the with block
Dump ==
    /\ e_pc = "dump"
    /\ blob' = Stored(enroll_db)
    /\ e_pc' = "returned"
    /\ UNCHANGED <<dir, image_files, idx, enroll_db, outcomes, prior,
                   embeddings_db, threshold, matchVars, streamVars>>

\* the process dies (killed, power loss, an exception of makedirs/open/dump)
Crash ==
    /\ e_pc \in {"start", "loop", "open", "dump"}
    /\ e_pc' = "crashed"
    /\ UNCHANGED <<blob, dir, image_files, idx, enroll_db, outcomes, prior,
                   embeddings_db, threshold, matchVars, streamVars>>

NextEnroll ==
    \/ DirMissing \/ Discover
    \/ ProcessOk \/ ProcessFail
    \/ LoopEnd
    \/ OpenWrite \/ Dump
    \/ Crash

SpecEnroll == InitEnroll /\ [][NextEnroll]_vars

----------------------------------------------------------------------------
(* Properties of the streaming loop *)

SampledFrames == {samples[i].frame : i \in 1..Len(samples)}

\* the frames acquired so far whose sampling decision and extraction are over
Settled ==
    IF pc \in {"frame_ready", "extracting"} THEN 1..(frame_count - 1) ELSE 1..frame_count

\* C1: the extractor is invoked on an acquired frame iff its number (first
\* frame = 1) is a multiple of the sample interval, once per such frame; every
\* acquired frame is rendered before the next one is acquired; so after 25
\* frames with interval 10 the extractor ran exactly twice, on frames 10 and
\* 20, and 25 frames were rendered.
C1_SampledIffMultiple ==
    /\ SampledFrames = {k \in Settled : k % process_every_n_frames = 0}
    /\ Cardinality(SampledFrames) = Len(samples)
    /\ pc \in {"awaiting", "waitkey", "cleanup", "stopped"} => Len(rendered) = frame_count
    /\ (pc = "awaiting" /\ frame_count = 25)
          => /\ Len(samples) = 2
             /\ SampledFrames = {10, 20}
             /\ Len(rendered) = 25

C1_Witness ==
    /\ pc = "awaiting" /\ frame_count = 25
    /\ Len(samples) = 2 /\ Len(rendered) = 25

\* the overlay computed at the most recent sampled frame j <= k (None before any)
LatestOverlay(k) ==
    LET js == {i \in 1..Len(samples) : samples[i].frame <= k} IN
    IF js = {} THEN None
    ELSE samples[CHOOSE i \in js : \A j \in js : j <= i].overlay

\* C2: the overlay drawn on frame k is the one computed at the most recent
\* sampled frame j <= k (empty when that frame had no detection), and empty
\* when no frame was sampled yet: empty on frames 1-9, on frames 10-19 the
\* result of frame 10.
C2_OverlayIsLatestSample ==
    /\ \A k \in 1..Len(rendered) : rendered[k] = LatestOverlay(k)
    /\ \A k \in 1..Len(rendered) : k < process_every_n_frames => rendered[k] = None
    /\ \A k \in 1..Len(rendered) :
          (k >= 10 /\ k <= 19) => rendered[k] = samples[1].overlay
    /\ \A i \in 1..Len(samples) : samples[i].outcome = "empty" => samples[i].overlay = None
    /\ pc \in {"awaiting", "waitkey", "rendering"} => last_detection = LatestOverlay(frame_count)

C2_Witness ==
    /\ Len(rendered) >= 21
    /\ rendered[9] = None
    /\ rendered[10] # None /\ rendered[19] = rendered[10]
    /\ rendered[21] # rendered[10]

\* C3: when the extractor raises on a sampled frame the overlay becomes empty,
\* whatever it was, the loop moves on to render that frame (it neither stops nor
\* fails), and the frame is drawn with the empty overlay.
C3_ExtractorFailureRecovered ==
    /\ [][(pc = "extracting" /\ Len(samples') = Len(samples) + 1
             /\ samples'[Len(samples')].outcome = "raise")
          => (/\ last_detection' = None
              /\ pc' = "rendering"
              /\ cap' = "held"
              /\ frame_count' = frame_count)]_vars
    /\ [](\A i \in 1..Len(samples) :
            (samples[i].outcome = "raise" /\ Len(rendered) >= samples[i].frame)
               => rendered[samples[i].frame] = None)
    /\ [](\A i \in 1..Len(samples) :
            (samples[i].outcome = "raise" /\ samples[i].frame = frame_count)
               => pc \in {"rendering", "waitkey", "awaiting", "cleanup", "stopped", "crashed"})

\* an overlay was showing, the extractor raised on frame 20, frame 20 was drawn
\* empty and frame 21 has been acquired
C3_Witness ==
    /\ Len(samples) = 2
    /\ samples[1].overlay # None
    /\ samples[2].outcome = "raise"
    /\ Len(rendered) >= 20 /\ rendered[19] # None /\ rendered[20] = None
    /\ frame_count = 21 /\ pc = "frame_ready"

\* C4 (as claimed): on every exit path of the loop the capture acquired at the
\* start has been released exactly once; never held in a terminal state, never
\* released twice.
C4_ReleasedOnEveryExit ==
    /\ releases <= 1
    /\ pc \in {"stopped", "crashed"} => (cap = "released" /\ releases = 1)

----------------------------------------------------------------------------
(* Properties of find_match *)

Returned == match_result # Pending

\* C5: when find_match returns an identifier it is a key of the store and the
\* distance it reports (1 - similarity) is <= the distance from the probe to
\* every record of the store.
C5_NearestKey ==
    (Returned /\ match_result.kind = "match")
       => /\ match_result.person_id \in Keys(embeddings_db)
          /\ \A i \in 1..Len(embeddings_db) :
                Scale - match_result.similarity <= Cosine(probe, embeddings_db[i].embedding)

\* a match in a store whose records are at different distances from the probe
C5_Witness ==
    /\ Returned /\ match_result.kind = "match"
    /\ Len(embeddings_db) = 2
    /\ Cosine(probe, embeddings_db[1].embedding) > Cosine(probe, embeddings_db[2].embedding)

\* C6: with an empty store find_match answers "no match" for every probe and
\* every threshold; it does not raise.
C6_EmptyStoreNoMatch ==
    (Returned /\ Len(embeddings_db) = 0) => match_result = NoMatch

C6_Witness ==
    /\ Returned /\ Len(embeddings_db) = 0
    /\ threshold = Scale + 1 /\ probe = OtherDim
    /\ match_result = NoMatch

HoldsProbe == \E i \in 1..Len(embeddings_db) : embeddings_db[i].embedding = probe

\* C7 (as claimed): a store holding a record identical to the probe makes
\* find_match return a key holding that embedding, with similarity 1.0, for
\* every threshold >= 0.
C7_SelfMatchAnyThreshold ==
    (Returned /\ HoldsProbe)
       => /\ match_result.kind = "match"
          /\ match_result.similarity = Scale
          /\ \E i \in 1..Len(embeddings_db) :
                /\ embeddings_db[i].person_id = match_result.person_id
                /\ embeddings_db[i].embedding = probe

\* C7 (amended): for every threshold > 0 the answer is a match with similarity
\* 1.0 whose key holds an embedding at cosine distance 0 from the probe (the
\* probe itself or a positive multiple of it); with threshold 0 it is "no match".
C7_SelfMatchPositiveThreshold ==
    (Returned /\ HoldsProbe)
       => IF threshold > 0
          THEN /\ match_result.kind = "match"
               /\ match_result.similarity = Scale
               /\ \E i \in 1..Len(embeddings_db) :
                     /\ embeddings_db[i].person_id = match_result.person_id
                     /\ Cosine(probe, embeddings_db[i].embedding) = 0
          ELSE match_result = NoMatch

\* the probe is stored second, behind a record at a larger distance
C7_Witness ==
    /\ Returned /\ threshold = 5
    /\ Len(embeddings_db) = 2
    /\ embeddings_db[2].embedding = probe
    /\ Cosine(probe, embeddings_db[1].embedding) > 0
    /\ match_result = Match(embeddings_db[2].person_id, Scale)

\* C8: for a fixed probe and store and thresholds t1 <= t2, a match under t1 is
\* a match of the same identifier under t2, and "no match" under t2 is "no
\* match" under t1.
C8_ThresholdMonotone ==
    Returned =>
       \A t \in Thresholds :
          LET other == FindMatch(probe, embeddings_db, t) IN
          /\ (threshold <= t /\ match_result.kind = "match")
                => (other.kind = "match" /\ other.person_id = match_result.person_id)
          /\ (t <= threshold /\ match_result.kind = "nomatch")
                => other.kind = "nomatch"

\* a match under 0.2 that is no match under 0
C8_Witness ==
    /\ Returned /\ threshold = 5 /\ match_result.kind = "match"
    /\ match_result.similarity < Scale
    /\ FindMatch(probe, embeddings_db, 0).kind = "nomatch"
    /\ FindMatch(probe, embeddings_db, THRESHOLD).kind = "match"

----------------------------------------------------------------------------
(* Properties of enrollment *)

\* stems of the discovered images processed so far whose extraction succeeded
Succeeded == {image_files[i].stem : i \in {j \in 1..Len(outcomes) : outcomes[j] = "ok"}}

\* C9 (as claimed): at every point of an enrollment run, a crash at any step
\* included, the persisted file is exactly the previous store or exactly the
\* complete new mapping; never anything partial or truncated.
C9_PersistedOldOrNew ==
    \/ blob = prior
    \/ /\ blob.kind = "store"
       /\ idx = Len(image_files)
       /\ blob.db = enroll_db

\* C10: after a run in which at least one image succeeded, the keys of the
\* persisted store are exactly the stems of the discovered images whose
\* extraction succeeded, whatever the file held before; a failing image is
\* skipped and the images after it are still processed.
C10_KeysAreSucceededStems ==
    /\ e_pc = "returned" => Len(outcomes) = Len(image_files)
    /\ (e_pc = "returned" /\ Succeeded # {})
          => /\ blob.kind = "store"
             /\ Keys(blob.db) = Succeeded
    /\ Keys(enroll_db) = Succeeded

\* {a.jpg ok, b.png fails, c.jpg ok} over a file that held z: keys {a, c}
C10_Witness ==
    /\ e_pc = "returned"
    /\ prior = Stored(<<Rec("z", <<0, 5>>, Photo("z", ".jpg"))>>)
    /\ image_files = <<Photo("a", ".jpg"), Photo("b", ".png"), Photo("c", ".jpg")>>
    /\ outcomes = <<"ok", "fail", "ok">>
    /\ blob.kind = "store" /\ Keys(blob.db) = {"a", "c"}

----------------------------------------------------------------------------
(* Decision policy, persistence condition, read-only store, missing file *)

\* distances from the probe to the records of a store of the probe's dimension
Distances == {Cosine(probe, embeddings_db[i].embedding) : i \in 1..Len(embeddings_db)}

MinDistance == CHOOSE d \in Distances : \A e \in Distances : d <= e

\* C11: find_match returns a match iff the minimum distance over the store is
\* strictly below the threshold (a minimum equal to the threshold is "no
\* match"; so is an empty store), and on a match the similarity is 1 minus
\* that minimum.
C11_MatchIffStrictlyBelow ==
    (Returned /\ match_result.kind # "raise")
       => IF Len(embeddings_db) = 0
          THEN match_result = NoMatch
          ELSE /\ match_result.kind = "match" <=> MinDistance < threshold
               /\ match_result.kind = "nomatch" <=> MinDistance >= threshold
               /\ match_result.kind = "match"
                     => match_result.similarity = Scale - MinDistance

\* the minimum distance is exactly the threshold 0.4: no match
C11_Witness ==
    /\ Returned /\ Len(embeddings_db) = 2 /\ probe # OtherDim
    /\ threshold = THRESHOLD /\ MinDistance = THRESHOLD
    /\ match_result = NoMatch

\* C12: the run writes the persisted file iff the in-memory store is non-empty
\* once all discovered images are processed; with zero successes, no image
\* discovered or the directory missing nothing is written and the file is as
\* it was.
C12_WriteIffNonEmpty ==
    /\ blob # prior
          => (idx = Len(image_files) /\ image_files # <<>> /\ enroll_db # <<>>
              /\ e_pc \in {"dump", "returned", "crashed"})
    /\ e_pc = "returned"
          => /\ enroll_db # <<>> <=> blob # prior
             /\ enroll_db # <<>> => blob = Stored(enroll_db)
    /\ (e_pc = "returned" /\ (dir.kind = "missing" \/ image_files = <<>> \/ Succeeded = {}))
          => blob = prior

\* every discovered image failed, over an existing file: the file is untouched
C12_Witness ==
    /\ e_pc = "returned"
    /\ Len(image_files) = 2 /\ outcomes = <<"fail", "fail">>
    /\ prior.kind = "store"
    /\ blob = prior

\* C13: the store of the streaming component is loaded once, at startup, and
\* never changes afterwards: whatever the frames bring it equals the loaded
\* mapping, and the streaming component never writes the persisted file.
C13_StoreReadOnly ==
    /\ [][blob' = blob]_vars
    /\ [][embeddings_db' # embeddings_db => (pc = "init" /\ pc' = "open_cap")]_vars
    /\ [](pc \notin {"init", "exit1", "load_error"}
             => (blob.kind = "store" /\ embeddings_db = blob.db))

\* a run that matched on frame 10, failed in the matcher on frame 20 and stopped
C13_Witness ==
    /\ pc = "stopped" /\ Len(samples) = 2
    /\ samples[1].match.kind = "match"
    /\ samples[2].match.kind = "raise"
    /\ Len(embeddings_db) = 2 /\ embeddings_db = blob.db

\* C14: when the store file is missing at startup the run ends with the error
\* before the loop: the capture is never acquired, no frame is acquired and
\* the extractor is never invoked.
C14_MissingStoreStopsBeforeLoop ==
    blob = NoFile
       => /\ pc \in {"init", "exit1"}
          /\ cap = "none" /\ releases = 0
          /\ frame_count = 0 /\ samples = <<>> /\ rendered = <<>>
          /\ embeddings_db = <<>>

C14_Witness == blob = NoFile /\ pc = "exit1" /\ cap = "none"

----------------------------------------------------------------------------
(* Tie-break, colliding stems *)

\* the first record, in iteration order, at the minimum distance
FirstNearest ==
    CHOOSE i \in 1..Len(embeddings_db) :
       /\ Cosine(probe, embeddings_db[i].embedding) = MinDistance
       /\ \A j \in 1..(i - 1) : Cosine(probe, embeddings_db[j].embedding) # MinDistance

\* C15: when several records are at the same minimum distance the identifier
\* returned is the one met first in the store's iteration order, and a tie
\* raises no error.
C15_FirstMinimumWins ==
    /\ (Returned /\ match_result.kind = "match")
          => match_result.person_id = embeddings_db[FirstNearest].person_id
    /\ (Returned /\ probe # OtherDim) => match_result.kind \in {"match", "nomatch"}

\* two records at the same distance 0.2 from the probe: the first is returned
C15_Witness ==
    /\ Returned /\ probe = <<5, 0>> /\ threshold = THRESHOLD
    /\ Len(embeddings_db) = 2
    /\ embeddings_db[1].embedding = <<8, 6>> /\ embeddings_db[2].embedding = <<4, 3>>
    /\ match_result = Match(embeddings_db[1].person_id, Scale - 5)

\* the processed images of stem s whose extraction succeeded
OkIndices(s) ==
    {i \in 1..Len(outcomes) : image_files[i].stem = s /\ outcomes[i] = "ok"}

LastOk(s) == CHOOSE i \in OkIndices(s) : \A j \in OkIndices(s) : j <= i

\* C16: when two discovered files have the same stem and both succeed, the
\* in-memory store holds one record under that stem, the one of the file
\* processed later; when only one succeeds its record is kept; a later failure
\* never removes an earlier success.
C16_LaterSameStemOverwrites ==
    /\ Keys(enroll_db) = Succeeded
    /\ \A s \in Succeeded :
          /\ Cardinality({j \in 1..Len(enroll_db) : enroll_db[j].person_id = s}) = 1
          /\ \A j \in 1..Len(enroll_db) :
                enroll_db[j].person_id = s
                   => enroll_db[j].photo_path = image_files[LastOk(s)]

\* a.jpg then a.PNG, both succeed: one record, of a.PNG
C16_Witness ==
    /\ idx = 2 /\ outcomes = <<"ok", "ok">>
    /\ image_files[1] = Photo("a", ".jpg") /\ image_files[2] = Photo("a", ".PNG")
    /\ Len(enroll_db) = 1
    /\ enroll_db[1].person_id = "a" /\ enroll_db[1].photo_path = Photo("a", ".PNG")

----------------------------------------------------------------------------
(* Cancellation, matcher errors, overlay tags *)

\* the loop has been left by break
Stopped == pc \in {"cleanup", "stopped"}

\* C17: the loop is left only at the check after rendering (cancellation) or
\* at a failed acquisition, in both cases with every acquired frame rendered;
\* an extractor call that has started ends (result or failure) and its frame
\* goes to rendering; once the loop has stopped no frame is acquired,
\* extracted or rendered any more.
C17_CancellationAfterRender ==
    /\ [][(~Stopped /\ Stopped')
             => (pc \in {"waitkey", "awaiting"} /\ Len(rendered) = frame_count)]_vars
    /\ [][pc = "extracting"
             => (pc' = "rendering" /\ Len(samples') = Len(samples) + 1
                 /\ samples'[Len(samples')].frame = frame_count)]_vars
    /\ [][(pc = "frame_ready" \/ pc = "rendering") => ~(Stopped')]_vars
    /\ [][Stopped => (/\ pc' = "stopped"
                      /\ frame_count' = frame_count
                      /\ samples' = samples
                      /\ rendered' = rendered
                      /\ last_detection' = last_detection)]_vars
    /\ [](Stopped => Len(rendered) = frame_count)

\* stopped right after the sampled frame 10: it was extracted and rendered
C17_Witness ==
    /\ pc = "stopped" /\ frame_count = 10
    /\ Len(samples) = 1 /\ samples[1].frame = 10 /\ samples[1].overlay # None
    /\ Len(rendered) = 10 /\ rendered[10] = samples[1].overlay

\* C18: an error raised by the matcher on a sampled frame (a probe whose
\* dimensionality differs from the stored embeddings) is caught by the
\* handler of extractor failures: the overlay becomes empty, nothing
\* propagates, the frame is rendered and the loop goes on.
C18_MatcherErrorCaught ==
    /\ [][(pc = "extracting" /\ Len(samples') = Len(samples) + 1
             /\ samples'[Len(samples')].match.kind = "raise")
          => (/\ last_detection' = None
              /\ pc' = "rendering"
              /\ cap' = "held"
              /\ frame_count' = frame_count)]_vars
    /\ [](\A i \in 1..Len(samples) :
            samples[i].match.kind = "raise"
               => /\ samples[i].overlay = None
                  /\ Len(rendered) >= samples[i].frame => rendered[samples[i].frame] = None)

\* an overlay was showing, the matcher raised on frame 20, frame 20 was drawn
\* empty and frame 21 has been acquired
C18_Witness ==
    /\ Len(samples) = 2
    /\ samples[1].overlay # None
    /\ samples[2].outcome = "face" /\ samples[2].match.kind = "raise"
    /\ Len(rendered) >= 20 /\ rendered[19] # None /\ rendered[20] = None
    /\ frame_count = 21 /\ pc = "frame_ready"

\* the overlay is tagged recognized / unknown
Recognized(o) == o.color = COLOR_RECOGNIZED
Unknown(o)    == o.color = COLOR_UNKNOWN

\* the matcher answer behind overlay o: o was produced on a sampled frame
\* where the matcher gave answer m
ProducedWith(o, kind) ==
    \E i \in 1..Len(samples) : samples[i].overlay = o /\ samples[i].match.kind = kind

TagsAgree(o, m) ==
    /\ Recognized(o) \/ Unknown(o)
    /\ Recognized(o) <=> m.kind = "match"
    /\ Unknown(o) <=> m.kind = "nomatch"
    /\ Recognized(o) => (/\ o.label[1] = m.person_id
                         /\ o.label[1] \in Keys(embeddings_db)
                         /\ o.label # UnknownLabel)
    /\ Unknown(o) => o.label = UnknownLabel

\* C19: a non-empty overlay is tagged recognized only if the matcher returned
\* a match on the sampled frame that produced it, the identifier of its label
\* being a key of the loaded store; it is tagged unknown, with the fixed
\* label, exactly when the matcher returned "no match" on that frame; with an
\* empty store every non-empty overlay is unknown.
C19_TagFollowsMatcher ==
    /\ \A i \in 1..Len(samples) :
          samples[i].overlay # None => TagsAgree(samples[i].overlay, samples[i].match)
    /\ last_detection # None
          => /\ \E i \in 1..Len(samples) : samples[i].overlay = last_detection
             /\ Recognized(last_detection) => ProducedWith(last_detection, "match")
             /\ Unknown(last_detection) => ProducedWith(last_detection, "nomatch")
             /\ embeddings_db = <<>> => Unknown(last_detection)
    /\ \A k \in 1..Len(rendered) :
          (rendered[k] # None /\ Recognized(rendered[k]))
             => rendered[k].label[1] \in Keys(embeddings_db)

\* recognized "a" at 80% on frame 10, unknown on frame 20
C19_Witness ==
    /\ Len(samples) = 2 /\ Len(rendered) >= 20
    /\ rendered[10] # None /\ Recognized(rendered[10])
    /\ rendered[10].label = <<"a", 80>>
    /\ rendered[20] # None /\ Unknown(rendered[20])
    /\ rendered[20].label = UnknownLabel

====
